---- MODULE Spec2Model ----
(***************************************************************************)
(* A model of src/index.js: the Stockfish engine pool behind POST          *)
(* /best-move (enginePool, waitingQueue, acquireEngine, releaseEngine) and *)
(* the WebSocket room relay (rooms, join / move / leave / close).          *)
(*                                                                         *)
(* Node runs every handler to its next await without interruption, so one  *)
(* action is one such run: the synchronous part of a handler, or the       *)
(* continuation that follows the settling of the promise it awaits.        *)
(***************************************************************************)
EXTENDS Naturals, Sequences, FiniteSets

\* ------------------------------------------------------------------ bounds
\* Number of /best-move invocations a behaviour may contain.
NumRequests == 3

\* Number of WebSocket connections a behaviour may contain.
NumConns == 2
\* Number of distinct room identifiers clients use.
NumRooms == 2

\* ------------------------------------------------------- program constants
ENGINE_POOL_SIZE == 1
INITIAL_FEN == "rnbqkbnr/pppppppp/8/8/8/8/PPPPPPPP/RNBQKBNR w KQkq - 0 1"

\* --------------------------------------------------------------- JS values
\* The value of a property that is absent from the request body or object.
\* No input set below holds this string as a client-supplied string.
Undefined == "<undefined>"

\* Falsy with the empty string taken for a value (a test for undefined only).
Falsy_undefinedOnly(v) == v = Undefined

\* JavaScript's !v for the values a fen field takes here (strings, undefined).
Falsy(v) == v = Undefined \/ v = ""

Requests == 1 .. NumRequests
Engines == 1 .. ENGINE_POOL_SIZE
NoEngine == 0

\* What req.body.fen may hold: absent, the empty string, a position.
FenInputs == {Undefined, "", "8/8/8/8/8/8/8/K6k w - - 0 1"}

VARIABLES
    initPc,        \* the pool initialiser: "init" | "isready" | "done" | "failed"
    initI,         \* its loop variable i: engines pushed so far
    enginePool,    \* idle engines, a sequence (JS array)
    waitingQueue,  \* the resolve callbacks of suspended acquireEngine calls,
                   \* each named by the invocation it resumes
    pc,            \* per invocation: "new" | "waiting" | "position" | "go" | "done"
    fen,           \* per invocation: req.body.fen
    engine,        \* per invocation: its local const engine
    status,        \* per invocation: the HTTP status sent (0: none yet)
    exitPath,      \* per invocation: which path ended it
    released,      \* per invocation: the engines it has passed to
                   \* releaseEngine, in order
    queuedAt,      \* per invocation: when its resolve was pushed (0: never)
    clock          \* number of waitingQueue.push calls so far

poolVars == <<initPc, initI, enginePool, waitingQueue, pc, fen, engine, status,
              exitPath, released, queuedAt, clock>>

\* ------------------------------------------------------ WebSocket relay
Conns == 1 .. NumConns
NoConn == 0

\* The room identifiers clients send, in the order the bound admits them;
\* the empty string is the identifier that is falsy in JavaScript.
RoomIdList == <<"r1", "r2", "", "r3", "r4">>
RoomIds == {RoomIdList[i] : i \in 1 .. NumRooms}

\* The payload of a move message: absent, or {from, to, newFen}.
NoPayload == <<>>
NewFens == {"fenA", "fenB"}
Payloads == {NoPayload} \cup {<<"e2", "e4", f>> : f \in NewFens}

\* The messages the server sends. The three error texts of the source are
\* Chinese; each is written here as its meaning in ASCII.
ErrRoomFull == [type |-> "error", message |-> "room is full"]
ErrNotYourTurn == [type |-> "error", message |-> "not your turn yet"]
ErrUnknownType == [type |-> "error", message |-> "unknown message type"]
Joined(color, f, turn) == [type |-> "joined", color |-> color, fen |-> f, turn |-> turn]
OpponentMove(from, to, newFen) ==
    [type |-> "opponentMove", from |-> from, to |-> to, newFen |-> newFen]

VARIABLES
    wsState,     \* per connection: "unconnected" | "open" | "closed"
    wsColor,     \* per connection: ws.color
    wsRoomId,    \* per connection: ws.roomId
    rooms,       \* the Map rooms: a function from the room ids present to
                 \* [players, fen, turn]
    sent,        \* the ws.send calls of the handler that ran last, in order:
                 \* [to |-> connection, msg |-> message]
    lastMover    \* per room id: the connection whose move was accepted last in
                 \* the session now under that id (NoConn: none yet)

roomVars == <<wsState, wsColor, wsRoomId, rooms, sent, lastMover>>

vars == <<poolVars, roomVars>>

\* ------------------------------------------------------------ pool: pure
\* Array.prototype.pop: the last element is removed and returned.
Pop(arr) == [rest |-> SubSeq(arr, 1, Len(arr) - 1), value |-> arr[Len(arr)]]

\* acquireEngine that reads the last idle engine and leaves it in the pool.
acquireEngine_noPop(pool, queue, h) ==
    IF Len(pool) > 0
    THEN [enginePool |-> pool, waitingQueue |-> queue, resolved |-> pool[Len(pool)]]
    ELSE [enginePool |-> pool, waitingQueue |-> Append(queue, h),
          resolved |-> NoEngine]

\* acquireEngine called by invocation h: the pool and queue afterwards, and
\* the engine the promise is resolved with at once (none: the caller waits).
acquireEngine(pool, queue, h) ==
    IF Len(pool) > 0
    THEN [enginePool |-> Pop(pool).rest, waitingQueue |-> queue,
          resolved |-> Pop(pool).value]
    ELSE [enginePool |-> pool, waitingQueue |-> Append(queue, h),
          resolved |-> NoEngine]

\* releaseEngine that takes the newest waiter (pop) instead of the oldest.
releaseEngine_lifo(pool, queue, e) ==
    IF Len(queue) > 0
    THEN [enginePool |-> pool, waitingQueue |-> SubSeq(queue, 1, Len(queue) - 1),
          resumed |-> queue[Len(queue)]]
    ELSE [enginePool |-> Append(pool, e), waitingQueue |-> queue, resumed |-> 0]

\* releaseEngine(e): the pool and queue afterwards, and the invocation whose
\* resolve was shifted off the queue and called with e (0: none).
releaseEngine(pool, queue, e) ==
    IF Len(queue) > 0
    THEN [enginePool |-> pool, waitingQueue |-> Tail(queue), resumed |-> Head(queue)]
    ELSE [enginePool |-> Append(pool, e), waitingQueue |-> queue, resumed |-> 0]

\* --------------------------------------------------------- pool: actions
PoolInit ==
    /\ initPc = "init"
    /\ initI = 0
    /\ enginePool = <<>>
    /\ waitingQueue = <<>>
    /\ pc = [h \in Requests |-> "new"]
    /\ fen = [h \in Requests |-> Undefined]
    /\ engine = [h \in Requests |-> NoEngine]
    /\ status = [h \in Requests |-> 0]
    /\ exitPath = [h \in Requests |-> "none"]
    /\ released = [h \in Requests |-> <<>>]
    /\ queuedAt = [h \in Requests |-> 0]
    /\ clock = 0

handlerVars == <<pc, fen, engine, status, exitPath, released, queuedAt, clock>>

\* await engine.init() settles successfully.
EngineInitDone ==
    /\ UNCHANGED roomVars
    /\ initPc = "init"
    /\ initPc' = "isready"
    /\ UNCHANGED <<initI, enginePool, waitingQueue, handlerVars>>

\* await engine.isready() settles successfully: push, i++, loop test.
EngineReady ==
    /\ UNCHANGED roomVars
    /\ initPc = "isready"
    /\ enginePool' = Append(enginePool, initI + 1)
    /\ initI' = initI + 1
    /\ initPc' = IF initI + 1 < ENGINE_POOL_SIZE THEN "init" ELSE "done"
    /\ UNCHANGED <<waitingQueue, handlerVars>>

\* engine.init() or engine.isready() rejects: the initialiser ends there.
EngineInitFail ==
    /\ UNCHANGED roomVars
    /\ initPc \in {"init", "isready"}
    /\ initPc' = "failed"
    /\ UNCHANGED <<initI, enginePool, waitingQueue, handlerVars>>

\* POST /best-move arrives: the handler runs to its first await.
BestMove(h, f) ==
    /\ UNCHANGED roomVars
    /\ pc[h] = "new"
    /\ fen' = [fen EXCEPT ![h] = f]
    /\ IF Falsy(f)
       THEN /\ status' = [status EXCEPT ![h] = 400]
            /\ pc' = [pc EXCEPT ![h] = "done"]
            /\ exitPath' = [exitPath EXCEPT ![h] = "badRequest"]
            /\ UNCHANGED <<enginePool, waitingQueue, engine, queuedAt, clock>>
       ELSE LET a == acquireEngine(enginePool, waitingQueue, h) IN
            /\ enginePool' = a.enginePool
            /\ waitingQueue' = a.waitingQueue
            /\ engine' = [engine EXCEPT ![h] = a.resolved]
            /\ pc' = [pc EXCEPT ![h] = IF a.resolved = NoEngine THEN "waiting"
                                                               ELSE "position"]
            /\ IF Len(a.waitingQueue) > Len(waitingQueue)
               THEN /\ clock' = clock + 1
                    /\ queuedAt' = [queuedAt EXCEPT ![h] = clock + 1]
               ELSE UNCHANGED <<queuedAt, clock>>
            /\ UNCHANGED <<status, exitPath>>
    /\ UNCHANGED <<initPc, initI, released>>

\* The finally block of invocation h: releaseEngine(engine), and the
\* continuation of the caller it resumes (which calls engine.position).
Finally(h) ==
    LET r == releaseEngine(enginePool, waitingQueue, engine[h]) IN
    /\ enginePool' = r.enginePool
    /\ waitingQueue' = r.waitingQueue
    /\ released' = [released EXCEPT ![h] = Append(@, engine[h])]
    /\ pc' = [x \in Requests |->
                IF x = h THEN "done"
                ELSE IF x = r.resumed THEN "position" ELSE pc[x]]
    /\ engine' = [x \in Requests |->
                IF x = r.resumed THEN engine[h] ELSE engine[x]]

\* await engine.position(fen) settles successfully: engine.go is called.
PositionOk(h) ==
    /\ UNCHANGED roomVars
    /\ pc[h] = "position"
    /\ pc' = [pc EXCEPT ![h] = "go"]
    /\ UNCHANGED <<initPc, initI, enginePool, waitingQueue, fen, engine, status,
                   exitPath, released, queuedAt, clock>>

\* await engine.position(fen) rejects: catch (500), then finally.
PositionFail(h) ==
    /\ UNCHANGED roomVars
    /\ pc[h] = "position"
    /\ status' = [status EXCEPT ![h] = 500]
    /\ exitPath' = [exitPath EXCEPT ![h] = "positionFailed"]
    /\ Finally(h)
    /\ UNCHANGED <<initPc, initI, fen, queuedAt, clock>>

\* await engine.go(...) settles with a result: res.json (200), then finally.
GoOk(h) ==
    /\ UNCHANGED roomVars
    /\ pc[h] = "go"
    /\ status' = [status EXCEPT ![h] = 200]
    /\ exitPath' = [exitPath EXCEPT ![h] = "ok"]
    /\ Finally(h)
    /\ UNCHANGED <<initPc, initI, fen, queuedAt, clock>>

\* GoFail with releaseEngine at the end of the try block, not in a finally.
GoFail_noFinally(h) ==
    /\ UNCHANGED roomVars
    /\ pc[h] = "go"
    /\ status' = [status EXCEPT ![h] = 500]
    /\ exitPath' = [exitPath EXCEPT ![h] = "goFailed"]
    /\ pc' = [pc EXCEPT ![h] = "done"]
    /\ UNCHANGED <<initPc, initI, enginePool, waitingQueue, fen, engine,
                   released, queuedAt, clock>>

\* await engine.go(...) rejects: catch (500), then finally.
GoFail(h) ==
    /\ UNCHANGED roomVars
    /\ pc[h] = "go"
    /\ status' = [status EXCEPT ![h] = 500]
    /\ exitPath' = [exitPath EXCEPT ![h] = "goFailed"]
    /\ Finally(h)
    /\ UNCHANGED <<initPc, initI, fen, queuedAt, clock>>

\* ------------------------------------------------------- relay: pure
\* Array.prototype.filter(p => p !== ws).
RECURSIVE Without(_, _)
Without(players, ws) ==
    IF players = <<>> THEN <<>>
    ELSE IF Head(players) = ws THEN Without(Tail(players), ws)
    ELSE <<Head(players)>> \o Without(Tail(players), ws)

\* rooms.delete(roomId).
MapDelete(map, key) == [k \in DOMAIN map \ {key} |-> map[k]]

\* rooms.set(roomId, value).
MapSet(map, key, value) ==
    [k \in DOMAIN map \cup {key} |-> IF k = key THEN value ELSE map[k]]

\* A color choice that looks at the room being non-full instead of empty.
ColorFor_alwaysWhite(room) == IF Len(room.players) < 2 THEN "w" ELSE "b"

\* room.players.length === 0 ? 'w' : 'b'.
ColorFor(room) == IF Len(room.players) = 0 THEN "w" ELSE "b"

\* The room object a first join creates.
NewRoom == [players |-> <<>>, fen |-> INITIAL_FEN, turn |-> "w"]

\* A turn update that hands the move to black whoever moved.
Flip_toBlack(turn) == "b"

\* room.turn === 'w' ? 'b' : 'w'.
Flip(turn) == IF turn = "w" THEN "b" ELSE "w"

\* The forEach of the move case: one send per entry of players other than ws.
RECURSIVE Broadcast(_, _, _)
Broadcast(players, ws, msg) ==
    IF players = <<>> THEN <<>>
    ELSE (IF Head(players) # ws THEN <<[to |-> Head(players), msg |-> msg]>>
                                ELSE <<>>)
         \o Broadcast(Tail(players), ws, msg)

\* RemovePlayer without the delete of a room left empty.
RemovePlayer_keepEmpty(map, roomId, ws) ==
    [map EXCEPT ![roomId].players = Without(map[roomId].players, ws)]

\* The players of a room after ws has been filtered out, and the Map after
\* the room is deleted if that leaves it empty (leave and close share this).
RemovePlayer(map, roomId, ws) ==
    LET left == Without(map[roomId].players, ws) IN
    IF Len(left) = 0 THEN MapDelete(map, roomId)
    ELSE [map EXCEPT ![roomId].players = left]

\* The join test off by one (> for >=).
RoomIsFull_offByOne(room) == Len(room.players) > 2

\* room.players.length >= 2: the test that rejects a join.
RoomIsFull(room) == Len(room.players) >= 2

\* The move test guarded by ws.color being set.
NotYourTurn_ifColored(color, turn) == color # Undefined /\ color # turn

\* ws.color !== room.turn: the test that rejects a move.
NotYourTurn(color, turn) == color # turn

\* ---------------------------------------------------- relay: actions
RoomInit ==
    /\ wsState = [c \in Conns |-> "unconnected"]
    /\ wsColor = [c \in Conns |-> Undefined]
    /\ wsRoomId = [c \in Conns |-> Undefined]
    /\ rooms = <<>>
    /\ sent = <<>>
    /\ lastMover = [r \in RoomIds |-> NoConn]

\* wss.on('connection').
Connect(c) ==
    /\ UNCHANGED poolVars
    /\ wsState[c] = "unconnected"
    /\ wsState' = [wsState EXCEPT ![c] = "open"]
    /\ sent' = <<>>
    /\ UNCHANGED <<wsColor, wsRoomId, rooms, lastMover>>

\* A message {type: 'join', roomId} from connection c.
Join(c, roomId) ==
    /\ UNCHANGED poolVars
    /\ wsState[c] = "open"
    /\ LET created == roomId \notin DOMAIN rooms
           rooms1 == IF created THEN MapSet(rooms, roomId, NewRoom) ELSE rooms
           room == rooms1[roomId]
           color == ColorFor(room)
       IN
       IF RoomIsFull(room)
       THEN /\ sent' = <<[to |-> c, msg |-> ErrRoomFull]>>
            /\ rooms' = rooms1
            /\ UNCHANGED <<wsColor, wsRoomId, lastMover>>
       ELSE /\ wsColor' = [wsColor EXCEPT ![c] = color]
            /\ wsRoomId' = [wsRoomId EXCEPT ![c] = roomId]
            /\ rooms' = [rooms1 EXCEPT ![roomId].players = Append(room.players, c)]
            /\ sent' = <<[to |-> c, msg |-> Joined(color, room.fen, room.turn)]>>
            /\ lastMover' = IF created THEN [lastMover EXCEPT ![roomId] = NoConn]
                                       ELSE lastMover
    /\ UNCHANGED wsState

\* A message {type: 'move', roomId, payload} from connection c.
Move(c, roomId, payload) ==
    /\ UNCHANGED poolVars
    /\ wsState[c] = "open"
    /\ IF roomId \notin DOMAIN rooms
       THEN \* if (!room) return
            /\ sent' = <<>>
            /\ UNCHANGED <<rooms, lastMover>>
       ELSE IF payload = NoPayload
       THEN \* destructuring undefined throws; the catch only logs
            /\ sent' = <<>>
            /\ UNCHANGED <<rooms, lastMover>>
       ELSE IF NotYourTurn(wsColor[c], rooms[roomId].turn)
       THEN /\ sent' = <<[to |-> c, msg |-> ErrNotYourTurn]>>
            /\ UNCHANGED <<rooms, lastMover>>
       ELSE /\ rooms' = [rooms EXCEPT ![roomId].fen = payload[3],
                                      ![roomId].turn = Flip(rooms[roomId].turn)]
            /\ sent' = Broadcast(rooms[roomId].players, c,
                                 OpponentMove(payload[1], payload[2], payload[3]))
            /\ lastMover' = [lastMover EXCEPT ![roomId] = c]
    /\ UNCHANGED <<wsState, wsColor, wsRoomId>>

\* A message {type: 'leave', roomId} from connection c.
Leave(c, roomId) ==
    /\ UNCHANGED poolVars
    /\ wsState[c] = "open"
    /\ IF roomId \notin DOMAIN rooms
       THEN UNCHANGED <<rooms, lastMover>>
       ELSE /\ rooms' = RemovePlayer(rooms, roomId, c)
            /\ lastMover' = IF roomId \in DOMAIN rooms' THEN lastMover
                            ELSE [lastMover EXCEPT ![roomId] = NoConn]
    /\ sent' = <<>>
    /\ UNCHANGED <<wsState, wsColor, wsRoomId>>

\* A message whose type is none of join, move, leave.
UnknownType(c) ==
    /\ UNCHANGED poolVars
    /\ wsState[c] = "open"
    /\ sent' = <<[to |-> c, msg |-> ErrUnknownType]>>
    /\ UNCHANGED <<wsState, wsColor, wsRoomId, rooms, lastMover>>

\* ws.on('close').
Close(c) ==
    /\ UNCHANGED poolVars
    /\ wsState[c] = "open"
    /\ wsState' = [wsState EXCEPT ![c] = "closed"]
    /\ LET roomId == wsRoomId[c] IN
       IF ~Falsy(roomId) /\ roomId \in DOMAIN rooms
       THEN /\ rooms' = RemovePlayer(rooms, roomId, c)
            /\ lastMover' = IF roomId \in DOMAIN rooms' THEN lastMover
                            ELSE [lastMover EXCEPT ![roomId] = NoConn]
       ELSE UNCHANGED <<rooms, lastMover>>
    /\ sent' = <<>>
    /\ UNCHANGED <<wsColor, wsRoomId>>

\* ------------------------------------------------------ specifications
Init == PoolInit /\ RoomInit

\* The pool and the relay share no state: each is checked with the other
\* at rest.
Next ==
    \/ EngineInitDone
    \/ EngineReady
    \/ EngineInitFail
    \/ \E h \in Requests, f \in FenInputs : BestMove(h, f)
    \/ \E h \in Requests : PositionOk(h)
    \/ \E h \in Requests : PositionFail(h)
    \/ \E h \in Requests : GoOk(h)
    \/ \E h \in Requests : GoFail(h)

RoomNext ==
    \/ \E c \in Conns : Connect(c)
    \/ \E c \in Conns, r \in RoomIds : Join(c, r)
    \/ \E c \in Conns, r \in RoomIds, p \in Payloads : Move(c, r, p)
    \/ \E c \in Conns, r \in RoomIds : Leave(c, r)
    \/ \E c \in Conns : UnknownType(c)
    \/ \E c \in Conns : Close(c)

Spec == Init /\ [][Next]_vars

RoomSpec == Init /\ [][RoomNext]_vars

\* The pool under the scheduling Node gives and the assumption that every
\* engine exchange settles: a settled await is resumed, the initialiser's
\* awaits settle unless they reject, and an invocation's engine.position and
\* engine.go each settle one way or the other. Nothing obliges a client to
\* send a request.
FairSpec ==
    /\ Spec
    /\ WF_vars(EngineInitDone)
    /\ WF_vars(EngineReady)
    /\ \A h \in Requests : WF_vars(PositionOk(h) \/ PositionFail(h))
    /\ \A h \in Requests : WF_vars(GoOk(h) \/ GoFail(h))

\* ================================================================ claims
\* The invocations that hold engine e: acquired, not yet released.
Lent(e) == {h \in Requests : pc[h] \in {"position", "go"} /\ engine[h] = e}
Idle(e) == {i \in 1 .. Len(enginePool) : enginePool[i] = e}
Holding == {h \in Requests : pc[h] \in {"position", "go"}}
Waiting == {h \in Requests : pc[h] = "waiting"}
InFlight == Holding \cup Waiting
\* Invocation h calls releaseEngine in this step.
Releases(h) == Len(released'[h]) = Len(released[h]) + 1
\* Invocation h passes through acquireEngine in this step.
Acquires(h) == pc[h] = "new" /\ pc'[h] \in {"waiting", "position"}

\* C1 (as stated): in every reachable state every engine is either idle in
\* enginePool or lent to exactly one invocation, never both and never lent
\* twice, and idle plus lent engines number ENGINE_POOL_SIZE.
C1_OneOwnerPoolSize ==
    /\ \A e \in Engines : Cardinality(Idle(e)) + Cardinality(Lent(e)) = 1
    /\ Len(enginePool) + Cardinality(Holding) = ENGINE_POOL_SIZE

\* C1 (amended): every engine the initialiser has pushed is either idle or
\* lent to exactly one invocation, an engine not yet pushed is neither, and
\* idle plus lent engines number the engines pushed so far, which is
\* ENGINE_POOL_SIZE once the initialiser has finished.
C1_OneOwnerOncePushed ==
    /\ \A e \in Engines :
          Cardinality(Idle(e)) + Cardinality(Lent(e)) = IF e <= initI THEN 1 ELSE 0
    /\ Len(enginePool) + Cardinality(Holding) = initI
    /\ initPc = "done" => initI = ENGINE_POOL_SIZE

\* An engine is lent after an earlier invocation gave it back, with a
\* caller still queued.
C1_Witness ==
    /\ initPc = "done"
    /\ \E g, h \in Requests :
          /\ pc[g] = "done" /\ released[g] # <<>>
          /\ pc[h] = "go" /\ engine[h] \in Engines
    /\ Waiting # {}

\* C2: a releaseEngine call made while waitingQueue is non-empty resumes the
\* caller that was queued earliest, resumes no other caller and leaves
\* enginePool as it was; made while waitingQueue is empty it appends the
\* engine to enginePool.
C2_ReleaseServesLongestWaiting ==
    [][\A h \in Requests : Releases(h) =>
         IF Len(waitingQueue) > 0
         THEN /\ Waiting # {}
              /\ LET w == CHOOSE x \in Waiting :
                              \A y \in Waiting : queuedAt[x] <= queuedAt[y]
                 IN  /\ pc'[w] = "position"
                     /\ engine'[w] = engine[h]
                     /\ \A y \in Waiting \ {w} : pc'[y] = "waiting"
              /\ enginePool' = enginePool
         ELSE /\ enginePool' = Append(enginePool, engine[h])
              /\ waitingQueue' = waitingQueue
      ]_vars

\* A release has resumed the earlier of two queued callers; the later one
\* is still queued.
C2_Witness ==
    \E g, w, y \in Requests :
        /\ pc[g] = "done" /\ released[g] # <<>>
        /\ pc[w] = "position" /\ queuedAt[w] > 0
        /\ pc[y] = "waiting" /\ queuedAt[y] > queuedAt[w]

\* C3: an invocation that acquired an engine has released nothing while it
\* runs and exactly that engine, once, when it has ended, whichever way it
\* ended; an invocation that acquired none releases none.
C3_ReleasedExactlyOnce ==
    \A h \in Requests :
        /\ pc[h] = "done" /\ engine[h] # NoEngine => released[h] = <<engine[h]>>
        /\ pc[h] # "done" \/ engine[h] = NoEngine => released[h] = <<>>

\* The three exit paths have all been taken.
C3_Witness ==
    \E a, b, c \in Requests :
        /\ exitPath[a] = "ok" /\ released[a] = <<engine[a]>>
        /\ exitPath[b] = "positionFailed" /\ released[b] = <<engine[b]>>
        /\ exitPath[c] = "goFailed" /\ released[c] = <<engine[c]>>

\* C4: whenever enginePool is non-empty, waitingQueue is empty.
C4_IdleImpliesNoWaiters == Len(enginePool) > 0 => Len(waitingQueue) = 0

\* C5: no acquireEngine call is served or queued before the initialiser
\* has pushed all ENGINE_POOL_SIZE engines.
C5_NoBorrowBeforeInitDone ==
    [][\A h \in Requests : Acquires(h) => initPc = "done"]_vars

\* C6: acquireEngine hands over an idle engine without queueing when there
\* is one and queues the caller otherwise; at most ENGINE_POOL_SIZE
\* invocations hold an engine; of ENGINE_POOL_SIZE + 1 invocations in
\* flight against the initialised pool exactly one is suspended; and a
\* suspended caller is resumed only by the release of an invocation that
\* completes.
C6_AcquireOrQueue ==
    [][/\ \A h \in Requests : Acquires(h) =>
            IF Len(enginePool) > 0
            THEN /\ pc'[h] = "position"
                 /\ engine'[h] = enginePool[Len(enginePool)]
                 /\ waitingQueue' = waitingQueue
            ELSE /\ pc'[h] = "waiting"
                 /\ waitingQueue' = Append(waitingQueue, h)
       /\ \A h \in Requests : pc[h] = "waiting" /\ pc'[h] # "waiting" =>
            \E g \in Requests \ {h} : Releases(g) /\ pc'[g] = "done"
       /\ (Cardinality(Holding) <= ENGINE_POOL_SIZE)'
       /\ (initPc = "done" /\ Cardinality(InFlight) = ENGINE_POOL_SIZE + 1
              => Cardinality(Waiting) = 1)'
      ]_vars

\* C7: a request whose fen is missing or empty is answered 400 and ends
\* there, with enginePool, waitingQueue, every invocation's engine and
\* every invocation's releases as they were.
C7_BadRequestLeavesPool ==
    [][\A h \in Requests :
         pc[h] = "new" /\ pc'[h] # "new" /\ fen'[h] \in {Undefined, ""} =>
            /\ status'[h] = 400
            /\ pc'[h] = "done"
            /\ enginePool' = enginePool
            /\ waitingQueue' = waitingQueue
            /\ engine' = engine
            /\ released' = released
      ]_vars

\* Both kinds of bad request have been answered while the engine is lent
\* out.
C7_Witness ==
    \E a, b, g \in Requests :
        /\ fen[a] = "" /\ status[a] = 400
        /\ pc[b] = "done" /\ fen[b] = Undefined /\ status[b] = 400
        /\ pc[g] = "go"

\* C8: no room ever holds more than 2 players, and a join to a room that
\* holds 2 sends the room-full error to the joining connection and nothing
\* else, and leaves rooms and every connection's color and roomId as they
\* were.
C8_AtMostTwoJoinRejected ==
    [][/\ \A r \in DOMAIN rooms' : Len(rooms'[r].players) <= 2
       /\ \A c \in Conns, r \in RoomIds :
            Join(c, r) /\ r \in DOMAIN rooms /\ Len(rooms[r].players) = 2 =>
                /\ sent' = <<[to |-> c, msg |-> ErrRoomFull]>>
                /\ rooms' = rooms
                /\ wsColor' = wsColor
                /\ wsRoomId' = wsRoomId
      ]_vars

\* A join has just been refused by a room of two.
C8_Witness ==
    \E c \in Conns, r \in DOMAIN rooms :
        /\ sent = <<[to |-> c, msg |-> ErrRoomFull]>>
        /\ Len(rooms[r].players) = 2

\* C9: within one session, two moves accepted one after the other are
\* never by the same connection.
C9_NoTwoMovesInARow ==
    [][\A r \in DOMAIN rooms \cap DOMAIN rooms' :
         rooms'[r].turn # rooms[r].turn => lastMover'[r] # lastMover[r]]_vars

\* C10 (as stated): a move by a connection whose color is not the room's
\* turn sends the not-your-turn error to the mover and nothing else, and
\* leaves rooms as they were.
C10_WrongTurnRejected ==
    [][\A c \in Conns, r \in RoomIds, p \in Payloads :
         Move(c, r, p) /\ r \in DOMAIN rooms /\ wsColor[c] # rooms[r].turn =>
            /\ sent' = <<[to |-> c, msg |-> ErrNotYourTurn]>>
            /\ rooms' = rooms
      ]_vars

\* C10 (amended): a move by a connection whose color is not the room's turn
\* leaves rooms as they were and sends no opponentMove; it sends the
\* not-your-turn error to the mover and nothing else when the message has a
\* payload, and nothing at all when it has none.
C10_WrongTurnRejectedWithPayload ==
    [][\A c \in Conns, r \in RoomIds, p \in Payloads :
         Move(c, r, p) /\ r \in DOMAIN rooms /\ wsColor[c] # rooms[r].turn =>
            /\ rooms' = rooms
            /\ sent' = IF p = NoPayload THEN <<>>
                       ELSE <<[to |-> c, msg |-> ErrNotYourTurn]>>
      ]_vars

\* A move has just been refused in a room of two whose position other
\* moves had changed.
C10_Witness ==
    \E c \in Conns, r \in DOMAIN rooms :
        /\ sent = <<[to |-> c, msg |-> ErrNotYourTurn]>>
        /\ Len(rooms[r].players) = 2
        /\ rooms[r].fen # INITIAL_FEN
        /\ wsColor[c] # rooms[r].turn

\* Connection c's move with payload p is accepted in room r: the room
\* exists, the message has a payload and c's color is the room's turn.
Accepted(c, r, p) ==
    /\ Move(c, r, p)
    /\ r \in DOMAIN rooms
    /\ p # NoPayload
    /\ wsColor[c] = rooms[r].turn

\* C11: an accepted move sets the room's fen to the payload's newFen and its
\* turn to the other color; every room's turn is 'w' or 'b'; and the fen and
\* turn of a room that stays in the registry change in no step other than
\* an accepted move in that room.
C11_MoveSetsFenFlipsTurn ==
    [][/\ \A c \in Conns, r \in RoomIds, p \in Payloads : Accepted(c, r, p) =>
            /\ r \in DOMAIN rooms'
            /\ rooms'[r].fen = p[3]
            /\ rooms'[r].turn = (IF rooms[r].turn = "w" THEN "b" ELSE "w")
            /\ rooms'[r].players = rooms[r].players
            /\ \A q \in DOMAIN rooms \ {r} : q \in DOMAIN rooms' /\ rooms'[q] = rooms[q]
       /\ \A r \in DOMAIN rooms' : rooms'[r].turn \in {"w", "b"}
       /\ \A r \in DOMAIN rooms \cap DOMAIN rooms' :
            rooms'[r].turn # rooms[r].turn \/ rooms'[r].fen # rooms[r].fen =>
                \E c \in Conns, p \in Payloads : Accepted(c, r, p)
      ]_vars

\* Two moves have been accepted in a room of two: white's, then black's.
C11_Witness ==
    \E r \in DOMAIN rooms :
        /\ Len(rooms[r].players) = 2
        /\ rooms[r].turn = "w"
        /\ rooms[r].fen = "fenB"
        /\ lastMover[r] # NoConn
        /\ wsColor[lastMover[r]] = "b"

\* The ws.send calls of the last handler whose recipient is connection x.
SentTo(x) == {i \in 1 .. Len(sent) : sent[i].to = x}
Players(r) == {rooms[r].players[i] : i \in 1 .. Len(rooms[r].players)}

\* C12: an accepted move sends the opponentMove message with the move's
\* from, to and newFen exactly once to every participant of the room other
\* than the mover, and sends nothing else: nothing to the mover and nothing
\* to a connection that is not in the room's participant list.
C12_OneBroadcastToOthers ==
    [][\A c \in Conns, r \in RoomIds, p \in Payloads : Accepted(c, r, p) =>
         /\ \A i \in 1 .. Len(sent') : sent'[i].msg = OpponentMove(p[1], p[2], p[3])
         /\ \A x \in Conns :
              Cardinality(SentTo(x)') = IF x \in Players(r) \ {c} THEN 1 ELSE 0
      ]_vars

\* C13: a join to a room that is absent or holds fewer than 2 players gives
\* the connection 'w' when the room held no player and 'b' when it held one,
\* records that color and the room id on the connection, appends the
\* connection to the room's players, leaves the room's fen and turn and
\* every other room and connection alone, and sends one joined message, to
\* the joiner, with that color and the room's fen and turn.
C13_JoinAssignsColorAndReplies ==
    [][\A c \in Conns, r \in RoomIds :
         Join(c, r) /\ (r \in DOMAIN rooms => Len(rooms[r].players) < 2) =>
            LET old == IF r \in DOMAIN rooms THEN rooms[r]
                       ELSE [players |-> <<>>, fen |-> INITIAL_FEN, turn |-> "w"]
                color == IF Len(old.players) = 0 THEN "w" ELSE "b"
            IN  /\ wsColor' = [wsColor EXCEPT ![c] = color]
                /\ wsRoomId' = [wsRoomId EXCEPT ![c] = r]
                /\ DOMAIN rooms' = DOMAIN rooms \cup {r}
                /\ rooms'[r] = [players |-> Append(old.players, c),
                                fen |-> old.fen, turn |-> old.turn]
                /\ \A q \in DOMAIN rooms \ {r} : rooms'[q] = rooms[q]
                /\ sent' = <<[to |-> c,
                              msg |-> [type |-> "joined", color |-> color,
                                       fen |-> old.fen, turn |-> old.turn]]>>
      ]_vars

\* A second player has just joined a room in which a move had been played
\* and has been told 'b' and the room's position and turn.
C13_Witness ==
    \E c \in Conns, r \in DOMAIN rooms :
        /\ Len(rooms[r].players) = 2
        /\ rooms[r].players[2] = c
        /\ rooms[r].players[1] # c
        /\ wsColor[c] = "b"
        /\ wsRoomId[c] = r
        /\ wsColor[rooms[r].players[1]] = "w"
        /\ rooms[r].fen # INITIAL_FEN
        /\ sent = <<[to |-> c, msg |-> Joined("b", rooms[r].fen, rooms[r].turn)]>>

\* C14: every room in the registry has at least one entry in its players
\* list: no step, a leave or close that empties the list included, leaves
\* an empty room behind.
C14_NoEmptyRoom == \A r \in DOMAIN rooms : Len(rooms[r].players) >= 1

\* One room has gone with the close of its last player, another with the
\* leave of its last player.
C14_Witness ==
    \E c, d \in Conns :
        /\ c # d
        /\ wsState[c] = "closed" /\ wsRoomId[c] \in RoomIds
        /\ wsState[d] = "open" /\ wsRoomId[d] \in RoomIds
        /\ rooms = <<>>

\* C15: a room whose two participants have both gone (here: both of their
\* connections have closed) is not in the registry; and a join to a room id
\* that is not in the registry creates the room with the starting position,
\* turn 'w' and the joiner as its only player, colored 'w'.
C15_GoneWhenAllLeftFreshOnRejoin ==
    [][/\ \A r \in DOMAIN rooms' :
            Cardinality(Players(r)') = 2 =>
                \E x \in Players(r)' : wsState'[x] = "open"
       /\ \A c \in Conns, r \in RoomIds : Join(c, r) /\ r \notin DOMAIN rooms =>
            /\ r \in DOMAIN rooms'
            /\ rooms'[r] = [players |-> <<c>>, fen |-> INITIAL_FEN, turn |-> "w"]
            /\ wsColor'[c] = "w"
      ]_vars

\* C17: the two players of a room of two hold the colors 'w' and 'b', one
\* each.
C17_TwoPlayersTwoColors ==
    \A r \in DOMAIN rooms :
        Len(rooms[r].players) = 2 =>
            {wsColor[rooms[r].players[1]], wsColor[rooms[r].players[2]]} = {"w", "b"}

\* C18: a move changes a room or is broadcast in it only if its sender is
\* in that room's players list.
C18_OnlyParticipantsMove ==
    [][\A c \in Conns, r \in RoomIds, p \in Payloads :
         /\ Move(c, r, p)
         /\ r \in DOMAIN rooms
         /\ \/ rooms' # rooms
            \/ \E i \in 1 .. Len(sent') : sent'[i].msg.type = "opponentMove"
         => c \in Players(r)
      ]_vars

\* C19: a closed connection is in the players list of no room.
C19_ClosedInNoRoom ==
    \A c \in Conns : wsState[c] = "closed" =>
        \A r \in DOMAIN rooms : c \notin Players(r)

\* C16: every invocation that has called acquireEngine is eventually done
\* (it obtained an engine and completed), unless the pool's initialisation
\* failed.
C16_EveryRequestCompletes ==
    \A h \in Requests :
        (pc[h] \in {"waiting", "position", "go"}) ~> (pc[h] = "done" \/ initPc = "failed")

\* C20: a move is accepted only in a room that holds two players; and the
\* join that brings the second player into a room in which no move has been
\* accepted is answered with color 'b', the starting position and turn 'w'.
C20_MovesOnlyWhenTwoPlayers ==
    [][/\ \A c \in Conns, r \in RoomIds, p \in Payloads :
            Accepted(c, r, p) => Len(rooms[r].players) = 2
       /\ \A c \in Conns, r \in RoomIds :
            /\ Join(c, r)
            /\ r \in DOMAIN rooms
            /\ Len(rooms[r].players) = 1
            /\ lastMover[r] = NoConn
            => sent' = <<[to |-> c, msg |-> Joined("b", INITIAL_FEN, "w")]>>
      ]_vars

====
